---- MODULE Spec2Model ----
(***************************************************************************)
(* The 2D Jacobi kernel jacobi2d_hls (src/fpga/hls/jacobi_hls.cpp) and its  *)
(* testbench driver main (src/fpga/hls/tb_jacobi_hls.cpp).                  *)
(*                                                                         *)
(* Two specifications share the variables:                                  *)
(*   Spec        the driver: parse argv, allocate, init_grid, b = a, the    *)
(*               iteration loop (kernel call, swap), checksum, print;       *)
(*   SpecKernel  one kernel call on an arbitrary input grid and an          *)
(*               arbitrary (garbage) output buffer.                         *)
(* The kernel runs one inner-loop body per step.                            *)
(*                                                                         *)
(* A float is the pair <<m, e>> standing for m * 2^e, normalised (m odd, or *)
(* <<0, 0>>).  Addition rounds to the 24-bit significand of a float, ties   *)
(* to even; multiplication by 0.25f subtracts 2 from the exponent.  The     *)
(* exponent range (overflow to infinity, subnormals) and NaN are not        *)
(* modelled: every value the model computes lies far inside the range.      *)
(***************************************************************************)
EXTENDS Integers, Sequences, FiniteSets

\* ------------------------------------------------------------- bounds
\* Largest grid dimension drawn for N and M.
MaxDim == 4

\* Largest iteration count given as the third argument.
MaxIterArg == 3

\* ---------------------------------------------------- program constants
DefaultN == 1024

DefaultM == 1024

DefaultIters == 10

\* Significand width of the C type float.
FloatBits == 24

VARIABLES
  argv,    \* main's argv; argv[1] is C's argv[0]
  N, M,    \* grid dimensions (main's locals, the kernel's parameters)
  iters,   \* main's iteration count
  heap,    \* heap[p]: the float array at address p (p = 1, 2)
  a, b,    \* the data pointers of main's vectors a and b
  in, out, \* the kernel's pointer parameters
  pc,      \* position of the program
  t,       \* main's loop counter
  i, j,    \* loop counters of the function that is running
  sum,     \* main's checksum accumulator (double)
  calls,   \* history: number of kernel calls made
  in0,     \* history: the input grid as it was when the current call began
  last,    \* history: the grid the latest call produced (init_grid's at first)
  reads,   \* history: <<p, idx>> read by the running function
  writes   \* history: <<p, idx>> written by the running function

vars == <<argv, N, M, iters, heap, a, b, in, out, pc, t, i, j, sum, calls,
          in0, last, reads, writes>>

\* ------------------------------------------------------------- floats
F0 == <<0, 0>>

F1 == <<1, 0>>

Abs(x) == IF x < 0 THEN -x ELSE x

Min(x, y) == IF x < y THEN x ELSE y

RECURSIVE Norm(_, _)
\* The normal form of m * 2^e.
Norm(m, e) ==
  IF m = 0 THEN F0
  ELSE IF m % 2 = 0 THEN Norm(m \div 2, e + 1)
  ELSE <<m, e>>

RECURSIVE ExcessBits(_)
\* How many low bits of the magnitude n do not fit in a float's significand.
ExcessBits(n) == IF n < 2^FloatBits THEN 0 ELSE 1 + ExcessBits(n \div 2)

\* m / 2^k rounded to the nearest integer, ties to even.
RoundShift(m, k) ==
  LET d == 2^k
      q == m \div d
      r == m % d
  IN  IF 2*r < d THEN q
      ELSE IF 2*r > d THEN q + 1
      ELSE IF q % 2 = 0 THEN q ELSE q + 1

\* m * 2^e rounded to a float.
RoundFloat(m, e) ==
  LET k == ExcessBits(Abs(m)) IN Norm(RoundShift(m, k), e + k)

\* The exact sum of two dyadic values, as an unnormalised <<m, e>>.
ExactSum(x, y) ==
  LET e == Min(x[2], y[2])
  IN  <<x[1] * 2^(x[2] - e) + y[1] * 2^(y[2] - e), e>>

\* float + float
FAdd(x, y) == LET s == ExactSum(x, y) IN RoundFloat(s[1], s[2])

\* Variant of FMul025: the factor 0.5f.
FMul025Half(x) == IF x[1] = 0 THEN F0 ELSE <<x[1], x[2] - 1>>

\* 0.25f * x: a power of two, so the product is exact.
FMul025(x) == IF x[1] = 0 THEN F0 ELSE <<x[1], x[2] - 2>>

\* double + (double) float.  A double's significand has 53 bits; every sum
\* the model can hold fits, so the addition is exact.
DAdd(x, y) == LET s == ExactSum(x, y) IN Norm(s[1], s[2])

\* ------------------------------------------------------------- memory
\* Values an out-of-range read may yield.
Garbage == {F0, F1, <<-1, 0>>}

\* Reading p[idx]: the stored value, or anything when idx is out of range.
Load(p, idx) ==
  IF idx \in DOMAIN heap[p] THEN {heap[p][idx]} ELSE Garbage

\* Writing p[idx] = v.  A write out of range lands outside the two arrays.
Store(p, idx, v) ==
  IF idx \in DOMAIN heap[p] THEN [heap EXCEPT ![p][idx] = v] ELSE heap

\* std::vector<float>(n): n value-initialised floats.
ZeroVec(n) == [idx \in 0 .. n - 1 |-> F0]

\* ------------------------------------------------------------- kernel
\* Variants of IsBorder, each with one of the four tests left out.
IsBorderNoLastRow(r, c, n, m) == r = 0 \/ c = 0 \/ c = m - 1

IsBorderNoLastCol(r, c, n, m) == r = 0 \/ c = 0 \/ r = n - 1

IsBorderNoFirstRow(r, c, n, m) == c = 0 \/ r = n - 1 \/ c = m - 1

\* The test of the copy-through branch.
IsBorder(r, c, n, m) == r = 0 \/ c = 0 \/ r = n - 1 \/ c = m - 1

\* One body of Col_Loop at (i, j), reading the grid at src, followed by the
\* loops' increments and tests.
KernelStep(src) ==
  /\ pc = "kernel"
  /\ i < N
  /\ j < M
  /\ LET idx == i * M + j IN
       IF IsBorder(i, j, N, M)
       THEN \E v \in Load(src, idx) :
              /\ heap' = Store(out, idx, v)
              /\ reads' = reads \cup {<<src, idx>>}
              /\ writes' = writes \cup {<<out, idx>>}
       ELSE \E up \in Load(src, (i - 1) * M + j),
               down \in Load(src, (i + 1) * M + j),
               left \in Load(src, i * M + (j - 1)),
               right \in Load(src, i * M + (j + 1)) :
              /\ heap' = Store(out, idx,
                               FMul025(FAdd(FAdd(FAdd(up, down), left), right)))
              /\ reads' = reads \cup {<<src, (i - 1) * M + j>>,
                                      <<src, (i + 1) * M + j>>,
                                      <<src, i * M + (j - 1)>>,
                                      <<src, i * M + (j + 1)>>}
              /\ writes' = writes \cup {<<out, idx>>}
  /\ IF j + 1 < M
     THEN j' = j + 1 /\ i' = i
     ELSE j' = 0 /\ i' = i + 1
  /\ UNCHANGED <<argv, N, M, iters, a, b, in, out, pc, t, sum, calls, in0,
                 last>>

\* Variant of KernelCell: a Gauss-Seidel sweep, reading the output buffer.
KernelCellInPlace == KernelStep(out)

\* One body of Col_Loop: every read is from in.
KernelCell == KernelStep(in)

\* Row_Loop's test fails: the kernel returns to main's loop body.
KernelReturn ==
  /\ pc = "kernel"
  /\ i >= N
  /\ last' = heap[out]
  /\ pc' = "swap"
  /\ UNCHANGED <<argv, N, M, iters, heap, a, b, in, out, t, i, j, sum, calls,
                 in0, reads, writes>>

\* ------------------------------------------- one call on any input grid
\* The values input cells are drawn from: 0, 1, -1, 0.25, 2^24, 2^24 - 1.
Vals == <<F0, F1, <<-1, 0>>, <<1, -2>>, <<1, 24>>, <<16777215, 0>>>>

\* The input grid with seed <<s0, s1, s2>>: cell (r, c) holds
\* Vals[(s0 + s1*r + s2*c) mod Len(Vals)].
Pattern(s0, s1, s2, n, m) ==
  [idx \in 0 .. n * m - 1 |->
     Vals[((s0 + s1 * (idx \div m) + s2 * (idx % m)) % Len(Vals)) + 1]]

KInit ==
  /\ argv = <<>>
  /\ N \in 1 .. MaxDim
  /\ M \in 1 .. MaxDim
  /\ iters = 1
  /\ a = 1 /\ b = 2
  /\ in = 1 /\ out = 2
  /\ \E s0 \in 0 .. Len(Vals) - 1, s1 \in 0 .. Len(Vals) - 1,
        s2 \in 0 .. Len(Vals) - 1, g \in {F1, <<7, 0>>} :
       heap = <<Pattern(s0, s1, s2, N, M), [idx \in 0 .. N * M - 1 |-> g]>>
  /\ in0 = heap[1]
  /\ last = heap[1]
  /\ pc = "kernel"
  /\ t = 0 /\ i = 0 /\ j = 0
  /\ sum = F0
  /\ calls = 1
  /\ reads = {} /\ writes = {}

KNext == KernelCell \/ KernelReturn

SpecKernel == KInit /\ [][KNext]_vars

\* ------------------------------------------------------------- driver
Digits == <<"0", "1", "2", "3", "4", "5", "6", "7", "8", "9">>

IsDigit(c) == \E d \in 1 .. 10 : Digits[d] = c

DigitVal(c) == (CHOOSE d \in 1 .. 10 : Digits[d] = c) - 1

RECURSIVE SkipSpace(_, _)
\* The first position at or after k that holds no white space.
SkipSpace(s, k) ==
  IF k <= Len(s) /\ s[k] = " " THEN SkipSpace(s, k + 1) ELSE k

RECURSIVE AtoiDigits(_, _, _)
\* The value of the run of digits of s that starts at k, after acc.
AtoiDigits(s, k, acc) ==
  IF k <= Len(s) /\ IsDigit(s[k])
  THEN AtoiDigits(s, k + 1, acc * 10 + DigitVal(s[k]))
  ELSE acc

\* std::atoi: white space, an optional sign, then digits up to the first
\* character that is none; 0 when there are none.
Atoi(s) ==
  LET k == SkipSpace(s, 1) IN
    IF k <= Len(s) /\ s[k] = "-" THEN -AtoiDigits(s, k + 1, 0)
    ELSE IF k <= Len(s) /\ s[k] = "+" THEN AtoiDigits(s, k + 1, 0)
    ELSE AtoiDigits(s, k, 0)

argc == Len(argv)

\* C's argv[k].
Arg(k) == argv[k + 1]

\* Variant of ParsedN: N is taken as soon as one argument is given.
ParsedNEarly == IF argc >= 2 THEN Atoi(Arg(1)) ELSE DefaultN

\* N after the two argument tests.
ParsedN == IF argc >= 3 THEN Atoi(Arg(1)) ELSE DefaultN

\* M after the two argument tests.
ParsedM == IF argc >= 3 THEN Atoi(Arg(2)) ELSE DefaultM

\* iters after the two argument tests.
ParsedIters == IF argc >= 4 THEN Atoi(Arg(3)) ELSE DefaultIters

\* main, up to the allocation.
ParseArgs ==
  /\ pc = "start"
  /\ N' = ParsedN
  /\ M' = ParsedM
  /\ iters' = ParsedIters
  /\ pc' = "alloc"
  /\ UNCHANGED <<argv, heap, a, b, in, out, t, i, j, sum, calls, in0, last,
                 reads, writes>>

\* std::vector<float> a(N*M), b(N*M).  Grids larger than MaxDim x MaxDim
\* (the defaults) are not allocated: the run is not followed further.
Alloc ==
  /\ pc = "alloc"
  /\ N <= MaxDim
  /\ M <= MaxDim
  /\ heap' = <<ZeroVec(N * M), ZeroVec(N * M)>>
  /\ a' = 1
  /\ b' = 2
  /\ pc' = "fill"
  /\ UNCHANGED <<argv, N, M, iters, in, out, t, i, j, sum, calls, in0, last,
                 reads, writes>>

\* init_grid: std::fill(a.begin(), a.end(), 0.0f).
InitFill ==
  /\ pc = "fill"
  /\ heap' = [heap EXCEPT ![a] = [idx \in DOMAIN heap[a] |-> F0]]
  /\ j' = 0
  /\ reads' = {}
  /\ writes' = {}
  /\ pc' = "row0"
  /\ UNCHANGED <<argv, N, M, iters, a, b, in, out, t, i, sum, calls, in0,
                 last>>

\* Variant of InitRowIdx: the loop walks column 0 instead of row 0.
InitRowIdxColumn(c, m) == c * m

\* The index init_grid's loop writes at step c.
InitRowIdx(c, m) == c

\* init_grid: one body of the loop, a[j] = 1.0f.
InitRow ==
  /\ pc = "row0"
  /\ j < M
  /\ heap' = Store(a, InitRowIdx(j, M), F1)
  /\ writes' = writes \cup {<<a, InitRowIdx(j, M)>>}
  /\ j' = j + 1
  /\ UNCHANGED <<argv, N, M, iters, a, b, in, out, pc, t, i, sum, calls, in0,
                 last, reads>>

\* init_grid returns; b = a copies the elements.
CopyB ==
  /\ pc = "row0"
  /\ j >= M
  /\ heap' = [heap EXCEPT ![b] = heap[a]]
  /\ last' = heap[a]
  /\ t' = 0
  /\ pc' = "loop"
  /\ UNCHANGED <<argv, N, M, iters, a, b, in, out, i, j, sum, calls, in0,
                 reads, writes>>

\* Variant of CallOut: the kernel is called in place.
CallOutAliased == a

\* The second argument of the call, b.data().
CallOut == b

\* The loop test holds: jacobi2d_hls(a.data(), b.data(), N, M) is called.
Call ==
  /\ pc = "loop"
  /\ t < iters
  /\ in' = a
  /\ out' = CallOut
  /\ in0' = heap[a]
  /\ i' = 0
  /\ j' = 0
  /\ reads' = {}
  /\ writes' = {}
  /\ calls' = calls + 1
  /\ pc' = "kernel"
  /\ UNCHANGED <<argv, N, M, iters, heap, a, b, t, sum, last>>

\* Variant of Swap: the buffers keep their roles.
SwapOmitted ==
  /\ pc = "swap"
  /\ t' = t + 1
  /\ pc' = "loop"
  /\ UNCHANGED <<argv, N, M, iters, heap, a, b, in, out, i, j, sum, calls,
                 in0, last, reads, writes>>

\* std::swap(a, b) exchanges the vectors' storage; then ++t.
Swap ==
  /\ pc = "swap"
  /\ a' = b
  /\ b' = a
  /\ t' = t + 1
  /\ pc' = "loop"
  /\ UNCHANGED <<argv, N, M, iters, heap, in, out, i, j, sum, calls, in0,
                 last, reads, writes>>

\* The loop test fails: the checksum loop starts.
LoopExit ==
  /\ pc = "loop"
  /\ t >= iters
  /\ sum' = F0
  /\ i' = 0
  /\ reads' = {}
  /\ writes' = {}
  /\ pc' = "sum"
  /\ UNCHANGED <<argv, N, M, iters, heap, a, b, in, out, t, j, calls, in0,
                 last>>

\* One body of the checksum loop, sum += a[i].
SumStep ==
  /\ pc = "sum"
  /\ i < N * M
  /\ \E v \in Load(a, i) : sum' = DAdd(sum, v)
  /\ reads' = reads \cup {<<a, i>>}
  /\ i' = i + 1
  /\ UNCHANGED <<argv, N, M, iters, heap, a, b, in, out, pc, t, j, calls,
                 in0, last, writes>>

\* The checksum loop ends; printf reports N, M, iters and sum; return 0.
Report ==
  /\ pc = "sum"
  /\ i >= N * M
  /\ pc' = "done"
  /\ UNCHANGED <<argv, N, M, iters, heap, a, b, in, out, t, i, j, sum, calls,
                 in0, last, reads, writes>>

\* ------------------------------------------------ the driver's inputs
ProgName == <<"t", "b">>

\* Arguments that std::atoi reads as a dimension in 1 .. MaxDim: a digit,
\* "02" and " 3x".
DimArgs ==
  {<<Digits[d + 1]>> : d \in 1 .. MaxDim} \cup {<<"0", "2">>, <<" ", "3", "x">>}

\* Arguments for iters: a digit in 0 .. MaxIterArg, "+2" and "-1".
IterArgs ==
  {<<Digits[d + 1]>> : d \in 0 .. MaxIterArg} \cup {<<"+", "2">>, <<"-", "1">>}

ArgVectors ==
  {<<ProgName>>}
    \cup {<<ProgName, x>> : x \in DimArgs}
    \cup {<<ProgName, x, y>> : x \in DimArgs, y \in DimArgs}
    \cup {<<ProgName, x, y, z>> : x \in DimArgs, y \in DimArgs, z \in IterArgs}
    \cup {<<ProgName, x, y, z, <<"9">>>> :
            x \in DimArgs, y \in DimArgs, z \in IterArgs}

Init ==
  /\ argv \in ArgVectors
  /\ N = DefaultN
  /\ M = DefaultM
  /\ iters = DefaultIters
  /\ heap = <<ZeroVec(0), ZeroVec(0)>>
  /\ a = 1 /\ b = 2
  /\ in = 1 /\ out = 2
  /\ in0 = ZeroVec(0)
  /\ last = ZeroVec(0)
  /\ pc = "start"
  /\ t = 0 /\ i = 0 /\ j = 0
  /\ sum = F0
  /\ calls = 0
  /\ reads = {} /\ writes = {}

Next ==
  \/ ParseArgs
  \/ Alloc
  \/ InitFill
  \/ InitRow
  \/ CopyB
  \/ Call
  \/ KernelCell
  \/ KernelReturn
  \/ Swap
  \/ LoopExit
  \/ SumStep
  \/ Report

Spec == Init /\ [][Next]_vars

\* ------------------------------------------------------------- claims
\* Cell (r, c) lies on the outer border of the N x M grid.
BorderCell(r, c) == r = 0 \/ r = N - 1 \/ c = 0 \/ c = M - 1

Rows == 0 .. N - 1

Cols == 0 .. M - 1

\* The kernel has returned and main has not yet swapped.
Returned == pc = "swap"

\* C1: after one call, every border cell of the output equals the cell of
\* the input (as it was when the call began) at the same index.
C1_BorderCopied ==
  Returned =>
    \A r \in Rows, c \in Cols :
      BorderCell(r, c) => heap[out][r * M + c] = in0[r * M + c]

\* C1 witness: a 4 x 4 call has returned whose last border cell holds an
\* input value that differs both from the first cell and from what the
\* output buffer held before.
C1_Witness ==
  /\ Returned
  /\ N = 4 /\ M = 4
  /\ in0[15] = <<1, -2>>
  /\ in0[0] = F0
  /\ heap[out][15] = in0[15]

\* C2: after one call with N >= 3 and M >= 3, every interior cell of the
\* output is 0.25f * (up + down + left + right), the four neighbours taken
\* from the input as it was when the call began.
C2_InteriorAveraged ==
  (Returned /\ N >= 3 /\ M >= 3) =>
    \A r \in Rows, c \in Cols :
      ~BorderCell(r, c) =>
        heap[out][r * M + c] =
          FMul025(FAdd(FAdd(FAdd(in0[(r - 1) * M + c], in0[(r + 1) * M + c]),
                            in0[r * M + (c - 1)]),
                       in0[r * M + (c + 1)]))

\* C2 witness: a 3 x 3 call has returned with up = 2^24, down = 0, left = 1
\* and right = 0.25; the float sum rounds to 2^24 and the centre cell of the
\* output is 2^22.
C2_Witness ==
  /\ Returned
  /\ N = 3 /\ M = 3
  /\ in0[1] = <<1, 24>> /\ in0[7] = F0 /\ in0[3] = F1 /\ in0[5] = <<1, -2>>
  /\ heap[out][4] = <<1, 22>>

\* C3: when N <= 2 or M <= 2 the call copies the grid, and no step takes the
\* averaging branch: at every moment of the call the indices read are the
\* indices written, one copy per cell.
C3_DegenerateIdentity ==
  ((N <= 2 \/ M <= 2) /\ pc \in {"kernel", "swap"}) =>
    /\ {x[2] : x \in reads} = {x[2] : x \in writes}
    /\ \A x \in writes : heap[out][x[2]] = in0[x[2]]
    /\ Returned => heap[out] = in0

\* C3 witness: a 2 x 4 call has returned with an input that is not constant
\* and differs from what the output buffer held before.
C3_Witness ==
  /\ Returned
  /\ N = 2 /\ M = 4
  /\ in0[0] = F0 /\ in0[5] = <<1, -2>> /\ in0[6] = <<1, 24>>
  /\ heap[out] = in0

T == IF iters > 0 THEN iters ELSE 0

\* The grid init_grid is to produce: 1.0 on row 0, 0.0 elsewhere.
TopEdgeGrid == [idx \in 0 .. N * M - 1 |-> IF idx < M THEN F1 ELSE F0]

\* The update of one call, as a function of the whole input grid g.
Update(g) ==
  [idx \in 0 .. N * M - 1 |->
     IF BorderCell(idx \div M, idx % M) THEN g[idx]
     ELSE FMul025(FAdd(FAdd(FAdd(g[idx - M], g[idx + M]), g[idx - 1]),
                       g[idx + 1]))]

RECURSIVE SumTo(_, _)
\* g[0] + ... + g[k - 1].
SumTo(g, k) == IF k = 0 THEN F0 ELSE DAdd(SumTo(g, k - 1), g[k - 1])

\* C5: the driver makes T calls.  The first call's input is the grid of
\* init_grid; every call's input is the grid the call before produced, and
\* its output is the update of that input; after each swap, and when the
\* loop has ended, the current buffer a is the latest call's output; the
\* checksum is the sum of its cells.  So the grid summed is the update
\* applied T times to the initial grid.
C5_Chained ==
  /\ (pc = "loop" /\ t = 0) => last = TopEdgeGrid
  /\ pc = "loop" => (calls = t /\ heap[a] = last)
  /\ pc = "kernel" => (calls = t + 1 /\ in0 = last)
  /\ pc = "swap" => (calls = t + 1 /\ heap[out] = last /\ last = Update(in0))
  /\ pc \in {"sum", "done"} => (calls = T /\ heap[a] = last)
  /\ pc = "done" => sum = SumTo(last, N * M)

\* C5 witness: a 4 x 4 run of 3 iterations has ended; cell (1,1) of the
\* summed buffer is 11/32 and the checksum is 4 + 7/8.
C5_Witness ==
  /\ pc = "done"
  /\ N = 4 /\ M = 4 /\ iters = 3
  /\ calls = 3
  /\ heap[a][5] = <<11, -5>>
  /\ sum = <<39, -3>>

\* C6: in every call the two buffers are distinct, every read so far is of
\* the input buffer, every write so far is to the output buffer, and the
\* input buffer holds what it held when the call began.
C6_NoAliasing ==
  pc \in {"kernel", "swap"} =>
    /\ in /= out
    /\ \A x \in reads : x[1] = in
    /\ \A x \in writes : x[1] = out
    /\ heap[in] = in0

\* C6 witness: the second call of a 4 x 4 run has returned, with the buffers
\* in the roles opposite to the first call's, the output changed by the call.
C6_Witness ==
  /\ Returned
  /\ calls = 2
  /\ N = 4 /\ M = 4
  /\ in = 2 /\ out = 1
  /\ heap[out] /= heap[in]
  /\ Cardinality(writes) = 16

\* C7: once the arguments are parsed, with fewer than two positional
\* arguments N = M = 1024, with two or more N and M are the values of the
\* first two; iters is the value of the third when there are three or more
\* and 10 otherwise.
C7_Defaults ==
  pc /= "start" =>
    /\ argc < 3 => (N = 1024 /\ M = 1024)
    /\ argc >= 3 => (N = Atoi(argv[2]) /\ M = Atoi(argv[3]))
    /\ argc >= 4 => iters = Atoi(argv[4])
    /\ argc < 4 => iters = 10

\* C7 witness: one positional argument, "3", was given and ignored.
C7_Witness ==
  /\ pc = "alloc"
  /\ argv = <<ProgName, <<"3">>>>
  /\ N = 1024 /\ M = 1024 /\ iters = 10

\* C9: from the end of the initialisation on, the current grid has 1.0 in
\* every cell of row 0 and 0.0 in every other border cell.
C9_DirichletKept ==
  pc \in {"loop", "kernel", "swap", "sum", "done"} =>
    \A r \in Rows, c \in Cols :
      /\ r = 0 => heap[a][r * M + c] = F1
      /\ (r /= 0 /\ BorderCell(r, c)) => heap[a][r * M + c] = F0

\* C9 witness: after two iterations on a 4 x 3 grid the interior has changed
\* and the loop is about to test again.
C9_Witness ==
  /\ pc = "loop"
  /\ t = 2
  /\ N = 4 /\ M = 3
  /\ heap[a][4] = <<1, -2>>
  /\ heap[a][7] = <<1, -4>>

\* C10: every index init_grid, the kernel and the checksum loop have read or
\* written lies in 0 .. N*M - 1.
C10_InBounds ==
  \A x \in reads \cup writes : 0 <= x[2] /\ x[2] < N * M

\* C10 witness: the kernel has read all four neighbours of the last interior
\* cell of a 4 x 4 grid, the neighbour below being in the last row.
C10_Witness ==
  /\ pc = "kernel"
  /\ N = 4 /\ M = 4
  /\ {<<in, 6>>, <<in, 14>>, <<in, 9>>, <<in, 11>>} \subseteq reads
  /\ <<out, 15>> \notin writes

====
